---- MODULE Spec2Model ----
(***************************************************************************)
(* Contract-interaction layer of web3.py: web3/contract/async_contract.py. *)
(*                                                                         *)
(* The module models the asynchronous contract function proxy              *)
(* (AsyncContractFunction), the constructor proxy                          *)
(* (AsyncContractConstructor) and the event proxy (AsyncContractEvent).    *)
(* A coroutine runs atomically between two awaits (asyncio runs one task   *)
(* at a time), so every action below is one such segment: from the call of *)
(* a method to its first await that suspends, or from the reply of the     *)
(* transport to the next await or to the return.                           *)
(*                                                                         *)
(* Collaborators that async_contract.py imports (the resolver, the codec,  *)
(* the filter parameter builder, the log decoder, the transaction          *)
(* defaults) are modelled from the written specification.                  *)
(***************************************************************************)
EXTENDS Integers, Sequences, FiniteSets, Bags, TLC

VARIABLES
    proxies,       \* the function proxies alive: a sequence of objects, an index is an identity
    inv,           \* the suspended invocations (coroutines waiting on the transport): a bag
    ret,           \* what the last step handed back to its caller (a return value or an exception)
    node_filters   \* the number of filters installed on the node

vars == <<proxies, inv, ret, node_filters>>

-----------------------------------------------------------------------------
(* Bounds of the model *)

MaxClones == 2      \* bound proxies created by __call__
MaxInv == 2         \* invocations suspended at the same time
MaxFilters == 1     \* filters the node accepts

-----------------------------------------------------------------------------
(* Values, as Python sees them: a type tag and a content *)

AddrA == [py |-> "str", v |-> 1]       \* a checksum address
AddrB == [py |-> "str", v |-> 2]
Int5 == [py |-> "int", v |-> 5]
Int100 == [py |-> "int", v |-> 100]
BytesD == [py |-> "bytes", v |-> 7]
NoValue == [py |-> "None", v |-> 0]

ContractAddress == "0xC0"

Param(n, t, ix) == [name |-> n, type |-> t, indexed |-> ix]

(* The ABI Registry: the contract's interface, read-only after construction *)
ContractABI == <<
    [type |-> "function", name |-> "transfer",
     inputs |-> <<Param("to", "address", FALSE), Param("value", "uint256", FALSE)>>],
    [type |-> "function", name |-> "transfer",
     inputs |-> <<Param("to", "address", FALSE), Param("value", "uint256", FALSE),
                  Param("data", "bytes", FALSE)>>],
    [type |-> "function", name |-> "set",
     inputs |-> <<Param("value", "uint256", FALSE)>>],
    [type |-> "function", name |-> "set",
     inputs |-> <<Param("value", "int256", FALSE)>>],
    [type |-> "function", name |-> "balanceOf",
     inputs |-> <<Param("owner", "address", FALSE)>>],
    [type |-> "event", name |-> "Transfer",
     inputs |-> <<Param("from", "address", TRUE), Param("to", "address", TRUE),
                  Param("value", "uint256", FALSE)>>],
    [type |-> "event", name |-> "Deposit",
     inputs |-> <<Param("from", "address", TRUE), Param("amount", "uint256", FALSE)>>]
>>

FnNames == <<"transfer", "set", "balanceOf">>
EventAbis == {i \in DOMAIN ContractABI : ContractABI[i].type = "event"}

-----------------------------------------------------------------------------
(* ABI codec *)

(* "can this value be encoded as this type" *)
is_encodable(type, val) ==
    CASE type = "address" -> val.py = "str"
      [] type = "uint256" -> val.py = "int" /\ val.v >= 0
      [] type = "int256" -> val.py = "int"
      [] type = "bytes" -> val.py = "bytes"
      [] OTHER -> FALSE

(* Positional arguments fill the first parameters, each keyword argument
   names one of the remaining ones. *)
check_if_arguments_can_be_encoded(i, args, kwargs) ==
    LET ins == ContractABI[i].inputs
    IN /\ Len(ins) = Len(args) + Len(kwargs)
       /\ \A k \in 1..Len(args) : is_encodable(ins[k].type, args[k])
       /\ \A k \in 1..Len(kwargs) :
             \E j \in (Len(args) + 1)..Len(ins) :
                 /\ ins[j].name = kwargs[k].name
                 /\ is_encodable(ins[j].type, kwargs[k].val)

(* The canonical signature, whose digest is the selector *)
abi_to_signature(i) ==
    <<ContractABI[i].name>> \o [k \in 1..Len(ContractABI[i].inputs) |-> ContractABI[i].inputs[k].type]

function_abi_to_4byte_selector(i) == [digest |-> "keccak4", of |-> abi_to_signature(i)]

-----------------------------------------------------------------------------
(* Identifier Resolver *)

(* The entries that are functions called name, in declaration order *)
filter_by_name(name) ==
    SelectSeq([k \in 1..Len(ContractABI) |-> k],
              LAMBDA k : ContractABI[k].type = "function" /\ ContractABI[k].name = name)

(* Those of the candidates whose arity and parameter types take the arguments *)
filter_by_encodability(candidates, args, kwargs) ==
    SelectSeq(candidates, LAMBDA k : check_if_arguments_can_be_encoded(k, args, kwargs))

find_matching_fn_abi(name, args, kwargs) ==
    LET name_filter == filter_by_name(name)
        survivors == filter_by_encodability(name_filter, args, kwargs)
    IN IF Len(name_filter) = 0 THEN [err |-> "NotFound", abi |-> 0]
       ELSE IF Len(name_filter) = 1 THEN [err |-> "none", abi |-> name_filter[1]]
       ELSE IF Len(survivors) = 0 THEN [err |-> "NoMatchingOverload", abi |-> 0]
       ELSE IF Len(survivors) > 1 THEN [err |-> "AmbiguousOverload", abi |-> 0]
       ELSE [err |-> "none", abi |-> survivors[1]]

-----------------------------------------------------------------------------
(* Objects *)

NoSelector == [digest |-> "None", of |-> <<>>]

(* contract.functions.<name>: a proxy that carries no arguments yet *)
Unbound(name) ==
    [function_identifier |-> name, address |-> ContractAddress,
     args |-> <<>>, kwargs |-> <<>>, abi |-> 0, selector |-> NoSelector]

NoProxy == [function_identifier |-> "", address |-> "",
            args |-> <<>>, kwargs |-> <<>>, abi |-> 0, selector |-> NoSelector]

IsBound(f) == f.abi # 0

NoFilterParams == [address |-> "", topics |-> <<>>,
                   fromBlock |-> "None", toBlock |-> "None", blockHash |-> "None"]

NoFilterInput == [argument_filters |-> <<>>, fromBlock |-> "None",
                  toBlock |-> "None", block_hash |-> "None"]

(* A request handed to the transport *)
Request(method, f, abi, params) ==
    [method |-> method, to |-> f.address, fn_abi |-> abi,
     args |-> f.args, kwargs |-> f.kwargs, filter |-> params]

NoRequest == Request("", NoProxy, 0, NoFilterParams)

NoResult == <<>>

(* The frame of one invocation: its receiver and inputs, the requests it has
   issued (sent), those not answered yet (wait), and how it ended. *)
Frame(kind, p, self, ev, flt, bid) ==
    [kind |-> kind, p |-> p, self |-> self, ev |-> ev, flt |-> flt, bid |-> bid,
     pc |-> "start", tx |-> NoRequest, sent |-> <<>>, wait |-> <<>>, fails |-> 0,
     todo |-> <<>>, logs |-> <<>>,
     installed |-> 0, err |-> "none", result |-> NoResult]

NoRet == Frame("none", 0, NoProxy, 0, NoFilterInput, "None")

(* frame f issues request r and suspends at label pc *)
Issue(f, r, pc) == [f EXCEPT !.pc = pc, !.sent = Append(@, r), !.wait = Append(@, r)]

(* the oldest outstanding request of f is answered *)
Answered(f) == [f EXCEPT !.wait = Tail(@)]

(* the transport raised instead of answering *)
Failed(f) == [f EXCEPT !.wait = Tail(@), !.fails = @ + 1]

Raise(f, err) == [f EXCEPT !.pc = "done", !.err = err]

Return(f, result) == [f EXCEPT !.pc = "done", !.result = result]

Suspended == BagToSet(inv)

(* what a step does to the suspended invocations and to its caller: the
   frame leaves the bag when it is done and is handed back in ret *)
Step(old, new) ==
    LET rest == IF old.kind = "none" THEN inv ELSE inv (-) SetToBag({old})
    IN IF new.pc = "done"
       THEN inv' = rest /\ ret' = new
       ELSE inv' = rest (+) SetToBag({new}) /\ ret' = NoRet

CanStart == BagCardinality(inv) < MaxInv

-----------------------------------------------------------------------------
(* Contract Function: binding *)

(* Resolves the proxy's identifier against its arguments and stores the
   entry and its selector on the proxy; raises when resolution fails. *)
_set_function_info(f) ==
    LET r == find_matching_fn_abi(f.function_identifier, f.args, f.kwargs)
    IN IF r.err # "none" THEN [err |-> r.err, obj |-> f]
       ELSE [err |-> "none",
             obj |-> [f EXCEPT !.abi = r.abi,
                               !.selector = function_abi_to_4byte_selector(r.abi)]]

Kw(n, val) == [name |-> n, val |-> val]

(* The argument lists the model binds proxies to *)
BindInputs == {
    [fn |-> "transfer", args |-> <<AddrA, Int5>>, kwargs |-> <<>>],
    [fn |-> "transfer", args |-> <<AddrA, Int5, BytesD>>, kwargs |-> <<>>],
    [fn |-> "transfer", args |-> <<AddrA, Int5>>, kwargs |-> <<Kw("data", BytesD)>>],
    [fn |-> "transfer", args |-> <<AddrA>>, kwargs |-> <<>>],
    [fn |-> "set", args |-> <<Int5>>, kwargs |-> <<>>],
    [fn |-> "balanceOf", args |-> <<AddrA>>, kwargs |-> <<>>],
    [fn |-> "balanceOf", args |-> <<Int5>>, kwargs |-> <<>>]
}

(* Those of them the concurrent dispatches are bound to *)
ConcBindInputs == {b \in BindInputs : b.fn = "transfer" /\ Len(b.args) < 3}

(* __call__ without the copy: the receiver itself takes the arguments *)
call_in_place(p, args, kwargs) ==
    LET self == [proxies[p] EXCEPT !.args = args, !.kwargs = kwargs]
        info == _set_function_info(self)
        fr == Frame("bind", p, info.obj, 0, NoFilterInput, "None")
    IN /\ Len(proxies) < Len(FnNames) + MaxClones
       /\ proxies' = [proxies EXCEPT ![p] = info.obj]
       /\ ret' = IF info.err = "none" THEN Return(fr, p) ELSE Raise(fr, info.err)
       /\ UNCHANGED <<inv, node_filters>>

(* __call__ without the call of _set_function_info *)
call_without_resolution(p, args, kwargs) ==
    LET clone == [proxies[p] EXCEPT !.args = args, !.kwargs = kwargs]
        fr == Frame("bind", p, clone, 0, NoFilterInput, "None")
    IN /\ Len(proxies) < Len(FnNames) + MaxClones
       /\ proxies' = Append(proxies, clone)
       /\ ret' = Return(fr, Len(proxies) + 1)
       /\ UNCHANGED <<inv, node_filters>>

(* __call__ that resolves only a proxy that has no entry yet *)
call_keeps_resolved_entry(p, args, kwargs) ==
    LET clone == [proxies[p] EXCEPT !.args = args, !.kwargs = kwargs]
        info == IF IsBound(clone) THEN [err |-> "none", obj |-> clone]
                ELSE _set_function_info(clone)
        fr == Frame("bind", p, info.obj, 0, NoFilterInput, "None")
    IN /\ Len(proxies) < Len(FnNames) + MaxClones
       /\ proxies' = IF info.err = "none" THEN Append(proxies, info.obj) ELSE proxies
       /\ ret' = IF info.err = "none" THEN Return(fr, Len(proxies) + 1)
                 ELSE Raise(fr, info.err)
       /\ UNCHANGED <<inv, node_filters>>

(* Calling the proxy proxies[p] with arguments: the clone is a new object *)
AsyncContractFunction__call__(p, args, kwargs) ==
    LET clone == [proxies[p] EXCEPT !.args = args, !.kwargs = kwargs]
        info == _set_function_info(clone)
        fr == Frame("bind", p, info.obj, 0, NoFilterInput, "None")
    IN /\ Len(proxies) < Len(FnNames) + MaxClones
       /\ proxies' = IF info.err = "none" THEN Append(proxies, info.obj) ELSE proxies
       /\ ret' = IF info.err = "none" THEN Return(fr, Len(proxies) + 1)
                 ELSE Raise(fr, info.err)
       /\ UNCHANGED <<inv, node_filters>>

-----------------------------------------------------------------------------
(* Contract Function: dispatch *)

BlockIdentifiers == {"latest", "0xB10C"}

(* a block hash is looked up on the node, a tag or a number is not *)
block_identifier_needs_lookup(bid) == bid \notin {"latest", "earliest", "pending"}

rpc_result(req) ==
    [method |-> req.method, to |-> req.to, fn_abi |-> req.fn_abi,
     args |-> req.args, kwargs |-> req.kwargs]

(* Resolves the entry, encodes the call data and merges the contract's
   defaults (to = the contract's address) into the transaction. *)
prepare_transaction(self, method) ==
    LET r == find_matching_fn_abi(self.function_identifier, self.args, self.kwargs)
    IN IF r.err # "none" THEN [err |-> r.err, req |-> NoRequest]
       ELSE IF ~check_if_arguments_can_be_encoded(r.abi, self.args, self.kwargs)
       THEN [err |-> "EncodingError", req |-> NoRequest]
       ELSE [err |-> "none", req |-> Request(method, self, r.abi, NoFilterParams)]

(* a dispatch that reads the arguments bound last, whoever bound them *)
dispatch_latest_binding(f, method) ==
    LET t == prepare_transaction(proxies[Len(proxies)], method)
    IN IF t.err # "none" THEN Raise(f, t.err) ELSE Issue(f, t.req, method)

(* the one request of a dispatch: prepared from the receiver as it is now, then sent *)
dispatch(f, method) ==
    LET t == prepare_transaction(proxies[f.p], method)
    IN IF t.err # "none" THEN Raise(f, t.err) ELSE Issue(f, t.req, method)

(* a reply handler that sends the request again when the transport fails *)
dispatch_retried(f, ok) ==
    IF ok THEN Return(Answered(f), rpc_result(f.wait[1]))
    ELSE Issue(Failed(f), f.wait[1], f.pc)

(* the reply to the one request of a dispatch *)
dispatch_returned(f, ok) ==
    IF ok THEN Return(Answered(f), rpc_result(f.wait[1]))
    ELSE Raise(Failed(f), "TransportError")

(* call that looks the block up and sends eth_call at the same time *)
call_gather(p, bid) ==
    /\ CanStart
    /\ IsBound(proxies[p])
    /\ LET f == Frame("call", p, proxies[p], 0, NoFilterInput, bid)
           looked == Issue(f, Request("eth_getBlockByHash", NoProxy, 0, NoFilterParams),
                           "parse_block_identifier")
       IN Step(NoRet,
               IF block_identifier_needs_lookup(bid)
               THEN [dispatch(looked, "eth_call") EXCEPT !.pc = "parse_block_identifier"]
               ELSE dispatch(f, "eth_call"))
    /\ UNCHANGED <<proxies, node_filters>>

AsyncContractFunction_call(p, bid) ==
    /\ CanStart
    /\ IsBound(proxies[p])
    /\ LET f == Frame("call", p, proxies[p], 0, NoFilterInput, bid)
       IN Step(NoRet,
               IF block_identifier_needs_lookup(bid)
               THEN Issue(f, Request("eth_getBlockByHash", NoProxy, 0, NoFilterParams),
                          "parse_block_identifier")
               ELSE dispatch(f, "eth_call"))
    /\ UNCHANGED <<proxies, node_filters>>

(* async_parse_block_identifier returns and the call goes on *)
call_block_identifier_parsed(f, ok) ==
    /\ f.kind = "call" /\ f.pc = "parse_block_identifier"
    /\ Step(f, IF ok THEN dispatch(Answered(f), "eth_call")
               ELSE Raise(Failed(f), "TransportError"))
    /\ UNCHANGED <<proxies, node_filters>>

call_returned(f, ok) ==
    /\ f.kind = "call" /\ f.pc = "eth_call"
    /\ Step(f, dispatch_returned(f, ok))
    /\ UNCHANGED <<proxies, node_filters>>

AsyncContractFunction_transact(p) ==
    /\ CanStart
    /\ IsBound(proxies[p])
    /\ Step(NoRet, dispatch(Frame("transact", p, proxies[p], 0, NoFilterInput, "None"),
                            "eth_sendTransaction"))
    /\ UNCHANGED <<proxies, node_filters>>

transact_returned(f, ok) ==
    /\ f.kind = "transact" /\ f.pc = "eth_sendTransaction"
    /\ Step(f, dispatch_returned(f, ok))
    /\ UNCHANGED <<proxies, node_filters>>

AsyncContractFunction_estimate_gas(p) ==
    /\ CanStart
    /\ IsBound(proxies[p])
    /\ Step(NoRet, dispatch(Frame("estimate_gas", p, proxies[p], 0, NoFilterInput, "None"),
                            "eth_estimateGas"))
    /\ UNCHANGED <<proxies, node_filters>>

estimate_gas_returned(f, ok) ==
    /\ f.kind = "estimate_gas" /\ f.pc = "eth_estimateGas"
    /\ Step(f, dispatch_returned(f, ok))
    /\ UNCHANGED <<proxies, node_filters>>

(* The fields the transaction-defaulting collaborator asks the node for,
   one after the other *)
TransactionDefaults == <<"eth_chainId", "eth_gasPrice">>

(* fills the defaults still missing: asks for the next one, or returns the
   transaction when none is left *)
fill_transaction_defaults(f) ==
    IF f.todo = <<>> THEN Return(f, [transaction |-> rpc_result(f.tx),
                                     defaults |-> TransactionDefaults])
    ELSE Issue([f EXCEPT !.todo = Tail(@)],
               Request(Head(f.todo), NoProxy, 0, NoFilterParams), "fill_transaction_defaults")

AsyncContractFunction_build_transaction(p) ==
    /\ CanStart
    /\ IsBound(proxies[p])
    /\ LET f == Frame("build_transaction", p, proxies[p], 0, NoFilterInput, "None")
           t == prepare_transaction(proxies[p], "build_transaction")
       IN Step(NoRet,
               IF t.err # "none" THEN Raise(f, t.err)
               ELSE fill_transaction_defaults([f EXCEPT !.tx = t.req,
                                                        !.todo = TransactionDefaults]))
    /\ UNCHANGED <<proxies, node_filters>>

(* one default came back, for a function or for the constructor *)
transaction_default_filled(f, ok) ==
    /\ f.pc = "fill_transaction_defaults"
    /\ Step(f, IF ok THEN fill_transaction_defaults(Answered(f))
               ELSE Raise(Failed(f), "TransportError"))
    /\ UNCHANGED <<proxies, node_filters>>

-----------------------------------------------------------------------------
(* Contract Constructor *)

(* the deployment transaction: no recipient, the bytecode as data *)
_get_transaction == Request("deploy", NoProxy, 0, NoFilterParams)

AsyncContractConstructor_transact ==
    /\ CanStart
    /\ Step(NoRet, Issue(Frame("constructor_transact", 0, NoProxy, 0, NoFilterInput, "None"),
                         [_get_transaction EXCEPT !.method = "eth_sendTransaction"],
                         "eth_sendTransaction"))
    /\ UNCHANGED <<proxies, node_filters>>

AsyncContractConstructor_estimate_gas ==
    /\ CanStart
    /\ Step(NoRet, Issue(Frame("constructor_estimate_gas", 0, NoProxy, 0, NoFilterInput, "None"),
                         [_get_transaction EXCEPT !.method = "eth_estimateGas"],
                         "eth_estimateGas"))
    /\ UNCHANGED <<proxies, node_filters>>

constructor_returned(f, ok) ==
    /\ f.kind \in {"constructor_transact", "constructor_estimate_gas"}
    /\ Step(f, dispatch_returned(f, ok))
    /\ UNCHANGED <<proxies, node_filters>>

AsyncContractConstructor_build_transaction ==
    /\ CanStart
    /\ Step(NoRet,
            fill_transaction_defaults(
                [Frame("constructor_build_transaction", 0, NoProxy, 0, NoFilterInput, "None")
                 EXCEPT !.tx = _get_transaction, !.todo = TransactionDefaults]))
    /\ UNCHANGED <<proxies, node_filters>>

-----------------------------------------------------------------------------
(* Event Filter Builder *)

Topic(kind, py, v) == [kind |-> kind, py |-> py, v |-> v]

NullTopic == Topic("null", "None", 0)

(* topic 0: the digest of the event's canonical signature *)
event_abi_to_log_topic(ev) == Topic("keccak", "signature", ev)

encode_topic(val) == Topic("word", val.py, val.v)

decode_word(t) == [py |-> t.py, v |-> t.v]

indexed_inputs(ev) == SelectSeq(ContractABI[ev].inputs, LAMBDA a : a.indexed)

data_inputs(ev) == SelectSeq(ContractABI[ev].inputs, LAMBDA a : ~a.indexed)

(* the filters given for parameter name: at most one *)
filters_for(argument_filters, name) == SelectSeq(argument_filters, LAMBDA a : a.name = name)

(* topic 0 is the event's topic, then one topic per indexed parameter: its
   encoded filter value, or null when the caller gave none *)
construct_event_topic_set(ev, argument_filters) ==
    <<event_abi_to_log_topic(ev)>> \o
    [k \in 1..Len(indexed_inputs(ev)) |->
        LET given == filters_for(argument_filters, indexed_inputs(ev)[k].name)
        IN IF given = <<>> THEN NullTopic ELSE encode_topic(given[1].val)]

(* a filter value the codec cannot encode as its parameter's type *)
has_unencodable_filter(ev, argument_filters) ==
    \E k \in 1..Len(indexed_inputs(ev)) :
        LET given == filters_for(argument_filters, indexed_inputs(ev)[k].name)
        IN given # <<>> /\ ~is_encodable(indexed_inputs(ev)[k].type, given[1].val)

(* the filter parameters of a one-shot query *)
_get_event_filter_params(ev, flt) ==
    IF flt.block_hash # "None" /\ (flt.fromBlock # "None" \/ flt.toBlock # "None")
    THEN [err |-> "InvalidFilterParams", params |-> NoFilterParams]
    ELSE IF has_unencodable_filter(ev, flt.argument_filters)
    THEN [err |-> "EncodingError", params |-> NoFilterParams]
    ELSE [err |-> "none",
          params |-> [address |-> ContractAddress,
                      topics |-> construct_event_topic_set(ev, flt.argument_filters),
                      fromBlock |-> flt.fromBlock, toBlock |-> flt.toBlock,
                      blockHash |-> flt.block_hash]]

(* the builder of a live filter, set up from the caller's arguments *)
_set_up_filter_builder(ev, flt) ==
    IF has_unencodable_filter(ev, flt.argument_filters)
    THEN [err |-> "EncodingError", builder |-> NoFilterParams]
    ELSE [err |-> "none",
          builder |-> [address |-> ContractAddress,
                       topics |-> construct_event_topic_set(ev, flt.argument_filters),
                       fromBlock |-> flt.fromBlock, toBlock |-> flt.toBlock,
                       blockHash |-> "None"]]

-----------------------------------------------------------------------------
(* Log Decoder *)

Log(topics, data, logIndex) ==
    [address |-> ContractAddress, topics |-> topics, data |-> data,
     blockNumber |-> "105", logIndex |-> logIndex]

NoEventData == [err |-> "LogDecodeError", event |-> "", args |-> <<>>, address |-> "",
                blockNumber |-> "None", logIndex |-> 0]

(* the number of parameters among the first k that are indexed like the k-th *)
rank(ev, k) ==
    Cardinality({j \in 1..k : ContractABI[ev].inputs[j].indexed = ContractABI[ev].inputs[k].indexed})

(* topics[2..] go to the indexed parameters and the data words to the
   others, in declaration order; a log of another shape is refused *)
get_event_data(ev, entry) ==
    LET ins == ContractABI[ev].inputs
    IN IF \/ Len(entry.topics) # Len(indexed_inputs(ev)) + 1
          \/ Len(entry.data) # Len(data_inputs(ev))
       THEN NoEventData
       ELSE [err |-> "none", event |-> ContractABI[ev].name,
             args |-> [k \in 1..Len(ins) |->
                          [name |-> ins[k].name,
                           val |-> IF ins[k].indexed
                                   THEN decode_word(entry.topics[rank(ev, k) + 1])
                                   ELSE decode_word(entry.data[rank(ev, k)])]],
             address |-> entry.address, blockNumber |-> entry.blockNumber,
             logIndex |-> entry.logIndex]

(* Log entries a node may return *)
LogT1 == Log(<<event_abi_to_log_topic(6), encode_topic(AddrA), encode_topic(AddrB)>>,
             <<encode_topic(Int100)>>, 0)
LogT2 == Log(<<event_abi_to_log_topic(6), encode_topic(AddrB), encode_topic(AddrA)>>,
             <<encode_topic(Int5)>>, 1)
LogD1 == Log(<<event_abi_to_log_topic(7), encode_topic(AddrA)>>, <<encode_topic(Int100)>>, 2)
LogBad == Log(<<event_abi_to_log_topic(6)>>, <<>>, 3)

LogEntries == {LogT1, LogT2, LogD1, LogBad}

LogBatches == {<<>>, <<LogT1, LogT2>>, <<LogD1>>, <<LogT1, LogBad>>}

-----------------------------------------------------------------------------
(* Contract Event *)

Flt(af, from, to, hash) ==
    [argument_filters |-> af, fromBlock |-> from, toBlock |-> to, block_hash |-> hash]

(* The arguments the model gives get_logs *)
GetLogsInputs == {
    Flt(<<Kw("from", AddrA)>>, "100", "110", "None"),
    Flt(<<>>, "None", "None", "0xB10C"),
    Flt(<<>>, "100", "None", "0xB10C"),
    Flt(<<>>, "None", "110", "0xB10C"),
    Flt(<<Kw("from", Int5)>>, "100", "110", "None")
}

(* create_filter takes no block hash, and toBlock defaults to "latest" *)
CreateFilterInputs == {
    Flt(<<Kw("from", AddrA)>>, "100", "latest", "None"),
    Flt(<<Kw("from", Int5)>>, "100", "latest", "None")
}

(* every entry decoded, in order; the first entry that cannot
   be decoded ends the whole call *)
decode_logs(ev, logs) ==
    LET decoded == [k \in 1..Len(logs) |-> get_event_data(ev, logs[k])]
    IN IF \E k \in 1..Len(logs) : decoded[k].err # "none"
       THEN [err |-> "LogDecodeError", events |-> <<>>]
       ELSE [err |-> "none", events |-> decoded]

(* get_logs that sends what it is given, block hash and block range alike *)
get_logs_unvalidated(ev, flt) ==
    /\ CanStart
    /\ LET f == Frame("get_logs", 0, NoProxy, ev, flt, "None")
           params == [address |-> ContractAddress,
                      topics |-> construct_event_topic_set(ev, flt.argument_filters),
                      fromBlock |-> flt.fromBlock, toBlock |-> flt.toBlock,
                      blockHash |-> flt.block_hash]
       IN Step(NoRet, Issue(f, Request("eth_getLogs", NoProxy, ev, params), "eth_getLogs"))
    /\ UNCHANGED <<proxies, node_filters>>

(* get_logs that reads the logs through a filter it installs *)
get_logs_via_filter(ev, flt) ==
    /\ CanStart
    /\ LET f == Frame("get_logs", 0, NoProxy, ev, flt, "None")
           fp == _get_event_filter_params(ev, flt)
       IN Step(NoRet,
               IF fp.err # "none" THEN Raise(f, fp.err)
               ELSE Issue(f, Request("eth_newFilter", NoProxy, ev, fp.params), "eth_getLogs"))
    /\ UNCHANGED <<proxies, node_filters>>

AsyncContractEvent_get_logs(ev, flt) ==
    /\ CanStart
    /\ LET f == Frame("get_logs", 0, NoProxy, ev, flt, "None")
           fp == _get_event_filter_params(ev, flt)
       IN Step(NoRet,
               IF fp.err # "none" THEN Raise(f, fp.err)
               ELSE Issue(f, Request("eth_getLogs", NoProxy, ev, fp.params), "eth_getLogs"))
    /\ UNCHANGED <<proxies, node_filters>>

get_logs_returned(f, ok, logs) ==
    /\ f.kind = "get_logs" /\ f.pc = "eth_getLogs"
    /\ LET d == decode_logs(f.ev, logs)
           g == [Answered(f) EXCEPT !.logs = logs]
       IN Step(f, IF ~ok THEN Raise(Failed(f), "TransportError")
                  ELSE IF d.err # "none" THEN Raise(g, d.err)
                  ELSE Return(g, d.events))
    /\ UNCHANGED <<proxies, node_filters>>

NoFormatter == [fn |-> "None", abi |-> 0]

(* what filter_builder.deploy returns: the filter's id, no formatter yet *)
AsyncLogFilter(filter_id) ==
    [filter_id |-> filter_id, log_entry_formatter |-> NoFormatter, builder |-> NoFilterParams]

(* how a live filter formats an entry it has polled *)
format_entry(log_filter, entry) ==
    IF log_filter.log_entry_formatter = NoFormatter THEN entry
    ELSE get_event_data(log_filter.log_entry_formatter.abi, entry)

(* create_filter that deploys the builder before it has set it up *)
create_filter_deploy_first(ev, flt) ==
    /\ CanStart
    /\ LET f == Frame("create_filter", 0, NoProxy, ev, flt, "None")
           b == _set_up_filter_builder(ev, flt)
           deployed == Issue(f, Request("eth_newFilter", NoProxy, ev, b.builder), "deploy")
       IN Step(NoRet, IF b.err # "none" THEN Raise(deployed, b.err) ELSE deployed)
    /\ UNCHANGED proxies
    /\ UNCHANGED node_filters

AsyncContractEvent_create_filter(ev, flt) ==
    /\ CanStart
    /\ LET f == Frame("create_filter", 0, NoProxy, ev, flt, "None")
           b == _set_up_filter_builder(ev, flt)
       IN Step(NoRet,
               IF b.err # "none" THEN Raise(f, b.err)
               ELSE Issue(f, Request("eth_newFilter", NoProxy, ev, b.builder), "deploy"))
    /\ UNCHANGED proxies
    /\ UNCHANGED node_filters

(* create_filter that hands the deployed filter back as it is *)
create_filter_deployed_unformatted(f, ok) ==
    /\ f.kind = "create_filter" /\ f.pc = "deploy"
    /\ ok => node_filters < MaxFilters
    /\ node_filters' = IF ok THEN node_filters + 1 ELSE node_filters
    /\ Step(f, IF ~ok THEN Raise(Failed(f), "TransportError")
               ELSE Return([Answered(f) EXCEPT !.installed = @ + 1],
                           [AsyncLogFilter(node_filters + 1) EXCEPT
                               !.builder = f.wait[1].filter]))
    /\ UNCHANGED proxies

(* the node has installed the filter; the handle gets its
   formatter and its builder *)
create_filter_deployed(f, ok) ==
    /\ f.kind = "create_filter" /\ f.pc = "deploy"
    /\ ok => node_filters < MaxFilters
    /\ node_filters' = IF ok THEN node_filters + 1 ELSE node_filters
    /\ Step(f, IF ~ok THEN Raise(Failed(f), "TransportError")
               ELSE Return([Answered(f) EXCEPT !.installed = @ + 1],
                           [AsyncLogFilter(node_filters + 1) EXCEPT
                               !.log_entry_formatter = [fn |-> "get_event_data", abi |-> f.ev],
                               !.builder = f.wait[1].filter]))
    /\ UNCHANGED proxies

-----------------------------------------------------------------------------
(* The system *)

Init ==
    /\ proxies = [k \in 1..Len(FnNames) |-> Unbound(FnNames[k])]
    /\ inv = EmptyBag
    /\ ret = NoRet
    /\ node_filters = 0

(* the caller awaits one operation before it starts the next *)
Idle == inv = EmptyBag

Bind(inputs) ==
    \E p \in DOMAIN proxies, b \in inputs :
        /\ proxies[p].function_identifier = b.fn
        /\ AsyncContractFunction__call__(p, b.args, b.kwargs)

(* the transport answers a suspended dispatch of a function proxy *)
FunctionReply ==
    \E f \in Suspended, ok \in BOOLEAN :
        \/ call_block_identifier_parsed(f, ok)
        \/ call_returned(f, ok)
        \/ transact_returned(f, ok)
        \/ estimate_gas_returned(f, ok)
        \/ transaction_default_filled(f, ok)

(* Every operation of the module, one at a time; proxies are bound and
   rebound at any moment, also while an operation is suspended. *)
Next ==
    \/ Bind(BindInputs)
    \/ Idle /\ \E p \in DOMAIN proxies, bid \in BlockIdentifiers : AsyncContractFunction_call(p, bid)
    \/ Idle /\ \E p \in DOMAIN proxies : AsyncContractFunction_transact(p)
    \/ Idle /\ \E p \in DOMAIN proxies : AsyncContractFunction_estimate_gas(p)
    \/ Idle /\ \E p \in DOMAIN proxies : AsyncContractFunction_build_transaction(p)
    \/ FunctionReply
    \/ Idle /\ AsyncContractConstructor_transact
    \/ Idle /\ AsyncContractConstructor_estimate_gas
    \/ Idle /\ AsyncContractConstructor_build_transaction
    \/ \E f \in Suspended, ok \in BOOLEAN : constructor_returned(f, ok)
    \/ Idle /\ \E ev \in EventAbis, flt \in GetLogsInputs : AsyncContractEvent_get_logs(ev, flt)
    \/ \E f \in Suspended, ok \in BOOLEAN, logs \in LogBatches : get_logs_returned(f, ok, logs)
    \/ Idle /\ \E ev \in EventAbis, flt \in CreateFilterInputs :
                  AsyncContractEvent_create_filter(ev, flt)
    \/ \E f \in Suspended, ok \in BOOLEAN : create_filter_deployed(f, ok)

Spec == Init /\ [][Next]_vars

(* Reads and writes through function proxies running concurrently, up to
   MaxInv of them suspended at once, interleaved with binding and rebinding. *)
NextConc ==
    \/ Bind(ConcBindInputs)
    \/ \E p \in DOMAIN proxies, bid \in BlockIdentifiers : AsyncContractFunction_call(p, bid)
    \/ \E p \in DOMAIN proxies : AsyncContractFunction_transact(p)
    \/ \E f \in Suspended, ok \in BOOLEAN :
          \/ call_block_identifier_parsed(f, ok)
          \/ call_returned(f, ok)
          \/ transact_returned(f, ok)

SpecConc == Init /\ [][NextConc]_vars

-----------------------------------------------------------------------------
(* Properties *)

AllFrames(P(_)) == P(ret) /\ \A f \in Suspended : P(f)

DispatchKinds == {"call", "transact", "estimate_gas", "build_transaction"}

FunctionMethods == {"eth_call", "eth_sendTransaction", "eth_estimateGas", "build_transaction"}

ResolutionErrors == {"NotFound", "NoMatchingOverload", "AmbiguousOverload"}

FilterConstructionErrors == {"InvalidFilterParams", "EncodingError"}

Ended(f) == f.pc = "done"

Succeeded(f) == f.pc = "done" /\ f.err = "none"

(* the method a dispatch of this kind sends *)
MethodOf(kind) ==
    CASE kind = "call" -> "eth_call"
      [] kind = "transact" -> "eth_sendTransaction"
      [] kind = "estimate_gas" -> "eth_estimateGas"
      [] OTHER -> "build_transaction"

(* the requests of a frame that carry a function call *)
FunctionRequests(f) ==
    {f.sent[k] : k \in {j \in DOMAIN f.sent : f.sent[j].method \in FunctionMethods}}
    \cup (IF f.tx.method \in FunctionMethods THEN {f.tx} ELSE {})

(* what a dispatch of this kind returns for the proxy g when nothing else runs *)
ResultAlone(kind, g) ==
    LET r == rpc_result(Request(MethodOf(kind), g, g.abi, NoFilterParams))
    IN IF kind = "build_transaction"
       THEN [transaction |-> r, defaults |-> TransactionDefaults]
       ELSE r

(* C1: rebinding a proxy never changes a proxy that exists: every proxy
   keeps its args, kwargs, entry and selector in every step, and a dispatch
   that returns in the step returns what the receiver as it was bound gives. *)
C1_RebindNeverMutates ==
    [][/\ \A p \in DOMAIN proxies : p \in DOMAIN proxies' /\ proxies'[p] = proxies[p]
       /\ (ret'.kind \in DispatchKinds /\ Succeeded(ret'))
             => ret'.result = ResultAlone(ret'.kind, proxies[ret'.p])]_vars

(* a bound proxy has just been rebound to other arguments *)
C1_Witness ==
    /\ ret.kind = "bind" /\ Succeeded(ret)
    /\ IsBound(proxies[ret.p])
    /\ proxies[ret.p].args # proxies[ret.result].args
    /\ proxies[ret.p].abi # proxies[ret.result].abi

(* the entries called name whose arity and types take the arguments *)
Compatible(name, args, kwargs) ==
    {i \in DOMAIN ContractABI :
        /\ ContractABI[i].type = "function"
        /\ ContractABI[i].name = name
        /\ check_if_arguments_can_be_encoded(i, args, kwargs)}

Overloaded(name) ==
    Cardinality({i \in DOMAIN ContractABI :
                    ContractABI[i].type = "function" /\ ContractABI[i].name = name}) > 1

(* C2: binding an overloaded name fails with AmbiguousOverload when more
   than one entry takes the arguments, with NoMatchingOverload when none
   does, and yields the proxy of the one entry when exactly one does. *)
C2_OverloadResolution ==
    (ret.kind = "bind" /\ Ended(ret) /\ Overloaded(ret.self.function_identifier)) =>
        LET c == Compatible(ret.self.function_identifier, ret.self.args, ret.self.kwargs)
        IN /\ Cardinality(c) > 1 => ret.err = "AmbiguousOverload"
           /\ Cardinality(c) = 0 => ret.err = "NoMatchingOverload"
           /\ Cardinality(c) = 1 => /\ ret.err = "none"
                                    /\ proxies[ret.result].abi \in c
                                    /\ proxies[ret.result].args = ret.self.args
                                    /\ proxies[ret.result].kwargs = ret.self.kwargs

(* a bind that two entries take has just been refused *)
C2_Witness ==
    /\ ret.kind = "bind" /\ ret.err = "AmbiguousOverload"
    /\ Cardinality(Compatible(ret.self.function_identifier, ret.self.args, ret.self.kwargs)) = 2

BothBlockHashAndRange(flt) ==
    flt.block_hash # "None" /\ (flt.fromBlock # "None" \/ flt.toBlock # "None")

C3_OfFrame(f) ==
    (f.kind = "get_logs" /\ BothBlockHashAndRange(f.flt)) =>
        /\ Ended(f)
        /\ f.err = "InvalidFilterParams"
        /\ f.sent = <<>>

(* C3: get_logs given a block hash together with fromBlock or toBlock ends in
   InvalidFilterParams and has sent nothing. *)
C3_BlockHashExcludesRange == AllFrames(C3_OfFrame)

(* get_logs with a block hash and a toBlock has just been refused *)
C3_Witness ==
    /\ ret.kind = "get_logs" /\ ret.flt.block_hash # "None" /\ ret.flt.toBlock # "None"
    /\ ret.err = "InvalidFilterParams"

(* C4: a get_logs that succeeds has sent one request, eth_getLogs, has
   installed no filter, and returns the decoded event of every entry of the
   reply, in the reply's order. *)
C4_GetLogsOneShot ==
    (ret.kind = "get_logs" /\ Succeeded(ret)) =>
        /\ Len(ret.sent) = 1
        /\ ret.sent[1].method = "eth_getLogs"
        /\ ret.installed = 0
        /\ Len(ret.result) = Len(ret.logs)
        /\ \A k \in 1..Len(ret.logs) :
              /\ ret.result[k] = get_event_data(ret.ev, ret.logs[k])
              /\ ret.result[k].err = "none"

(* get_logs over blocks 100 to 110 has just returned two events *)
C4_Witness ==
    /\ ret.kind = "get_logs" /\ Succeeded(ret)
    /\ ret.flt.fromBlock = "100" /\ ret.flt.toBlock = "110"
    /\ Len(ret.result) = 2
    /\ ret.result[1].logIndex # ret.result[2].logIndex

(* what get_logs makes of the one entry *)
GetLogsDecodes(ev, entry) ==
    LET d == decode_logs(ev, <<entry>>)
    IN IF d.err = "none" THEN d.events[1] ELSE NoEventData

(* C5: a create_filter that succeeds has installed a filter on the node and
   returns a handle whose formatter decodes every entry as get_logs does for
   the same event, and that refers to the builder that was deployed. *)
C5_FilterFormatterAgrees ==
    (ret.kind = "create_filter" /\ Succeeded(ret)) =>
        /\ ret.installed = 1
        /\ ret.result.filter_id \in 1..node_filters
        /\ Len(ret.sent) = 1 /\ ret.sent[1].method = "eth_newFilter"
        /\ \A entry \in LogEntries :
              format_entry(ret.result, entry) = GetLogsDecodes(ret.ev, entry)
        /\ ret.result.builder = _set_up_filter_builder(ret.ev, ret.flt).builder
        /\ ret.result.builder = ret.sent[1].filter

(* create_filter has just returned a handle that decodes some entry *)
C5_Witness ==
    /\ ret.kind = "create_filter" /\ Succeeded(ret)
    /\ \E entry \in LogEntries : format_entry(ret.result, entry).err = "none"

C6_OfFrame(f) ==
    (/\ Ended(f)
     /\ \/ f.err \in ResolutionErrors
        \/ f.kind \in {"get_logs", "create_filter"} /\ f.err \in FilterConstructionErrors)
    => f.sent = <<>> /\ f.installed = 0

C7_OfFrame(f) ==
    /\ Len(f.wait) <= 1
    /\ Ended(f) => f.wait = <<>>

(* C7: an invocation has at most one request outstanding, and it is
   suspended exactly while it has one. *)
C7_OneRequestInFlight ==
    /\ AllFrames(C7_OfFrame)
    /\ \A f \in Suspended : Len(f.wait) = 1 /\ ~Ended(f)

(* an invocation waits for the answer to its second request *)
C7_Witness == \E f \in Suspended : Len(f.sent) = 2 /\ Len(f.wait) = 1

C8_OfFrame(f) ==
    f.fails > 0 =>
        /\ Ended(f)
        /\ f.err = "TransportError"
        /\ f.result = NoResult
        /\ f.fails = 1
        /\ f.wait = <<>>

(* C8: an invocation whose request the transport failed has ended with
   TransportError, without a result, and has sent nothing after it. *)
C8_NoRetry == AllFrames(C8_OfFrame)

(* a transact has just ended on the failure of its request *)
C8_Witness ==
    /\ ret.kind = "transact" /\ ret.fails = 1 /\ Len(ret.sent) = 1
    /\ ret.err = "TransportError"

C9_OfFrame(f) ==
    f.kind \in DispatchKinds =>
        /\ f.self = proxies[f.p]
        /\ \A r \in FunctionRequests(f) :
              /\ r.to = f.self.address
              /\ r.fn_abi = f.self.abi
              /\ r.args = f.self.args
              /\ r.kwargs = f.self.kwargs
        /\ Succeeded(f) => f.result = ResultAlone(f.kind, f.self)

(* C9: whatever runs in between, a dispatch sends the address, entry and
   arguments its receiver had when it started, returns what it returns
   alone, and finds its receiver as it was. *)
C9_DispatchesIndependent == AllFrames(C9_OfFrame)

(* two dispatches through different proxies are suspended, one of them
   after its block lookup *)
C9_Witness ==
    \E f, g \in Suspended :
        /\ f.p # g.p
        /\ f.self.kwargs # g.self.kwargs
        /\ f.self.abi # g.self.abi
        /\ f.kind = "call" /\ f.pc = "eth_call" /\ Len(f.sent) = 2
        /\ g.kind = "transact"

Resolved(g) == find_matching_fn_abi(g.function_identifier, g.args, g.kwargs)

C10_OfFrame(f) ==
    f.kind \in DispatchKinds =>
        \A r \in FunctionRequests(f) :
            /\ Resolved(f.self).err = "none"
            /\ r.fn_abi = Resolved(f.self).abi
            /\ r.args = f.self.args
            /\ r.kwargs = f.self.kwargs

(* C10: the entry and selector of every bound proxy are those its name
   resolves to with the arguments it carries, and every dispatch sends the
   entry its receiver's arguments resolve to. *)
C10_EntryConsistent ==
    /\ \A p \in DOMAIN proxies :
          IF IsBound(proxies[p])
          THEN /\ Resolved(proxies[p]).err = "none"
               /\ proxies[p].abi = Resolved(proxies[p]).abi
               /\ proxies[p].selector = function_abi_to_4byte_selector(Resolved(proxies[p]).abi)
          ELSE proxies[p].selector = NoSelector
    /\ AllFrames(C10_OfFrame)

(* a dispatch through a rebound proxy has returned while a proxy of the
   other overload exists *)
C10_Witness ==
    /\ ret.kind \in DispatchKinds /\ Succeeded(ret)
    /\ ret.self.kwargs # <<>>
    /\ \E q \in 1..(ret.p - 1) :
          /\ IsBound(proxies[q])
          /\ proxies[q].function_identifier = ret.self.function_identifier
          /\ proxies[q].abi # ret.self.abi

====
